---- MODULE Spec2Model ----
(***************************************************************************)
(* Convex hull primitives of rust-convexhull-benchmarks: Point2D           *)
(* (src/src/points.rs), Fatpoint2D and pick_vertex (src/src/types.rs) and  *)
(* the harness benchmark_convex_hull_algorithms (src/src/main.rs).         *)
(*                                                                         *)
(* Coordinates are small integers, on which every f64 operation of the     *)
(* source (+, -, *, comparison) is exact.  graham_scan and jarvis_march    *)
(* live in the crate's convexhull module, which is not among the source    *)
(* files; they are written from sections 4.3 and 4.4 of the specification  *)
(* on top of the primitives of the source.                                 *)
(***************************************************************************)
EXTENDS Integers, Sequences, FiniteSets, TLC

\* largest coordinate of an input point
MaxCoord == 2
\* largest number of points in the caller's collection
MaxLen == 3

Coords == 0..MaxCoord
\* points.rs: struct Point2D { x, y }
Point2D == [x : Coords, y : Coords]
\* every point collection the caller may pass (the empty one included)
PointSets == UNION {[1..n -> Point2D] : n \in 0..MaxLen}

Range(s) == {s[i] : i \in 1..Len(s)}
Abs(n) == IF n < 0 THEN 0 - n ELSE n

RECURSIVE GCD(_, _)
GCD(a, b) == IF b = 0 THEN a ELSE GCD(b, a % b)

(***************************************************************************)
(* f64::atan2(y, x) on integer offsets.  The value is represented by its   *)
(* signed rank among the directions of the grid: 0 for the angle 0         *)
(* (y = 0, x >= 0, atan2(0, 0) = 0 included), k > 0 for the k-th smallest  *)
(* angle of (0, pi], -k for the k-th largest angle of (-pi, 0).  The rank  *)
(* has the sign of the angle, equal ranks are equal angles and the order   *)
(* of ranks is the order of angles.                                        *)
(***************************************************************************)
Deltas == (0 - MaxCoord)..MaxCoord
Directions == {d \in [dy : Deltas, dx : Deltas] : GCD(Abs(d.dy), Abs(d.dx)) = 1}
UpperDirections == {d \in Directions : d.dy > 0 \/ (d.dy = 0 /\ d.dx < 0)}
LowerDirections == {d \in Directions : d.dy < 0}
atan2Table ==
  [v \in Deltas \X Deltas |->
     LET y == v[1]
         x == v[2]
     IN IF y = 0 /\ x >= 0 THEN 0
        ELSE IF y > 0 \/ (y = 0 /\ x < 0)
             THEN Cardinality({u \in UpperDirections : u.dx * y - u.dy * x >= 0})
             ELSE 0 - Cardinality({u \in LowerDirections : x * u.dy - y * u.dx >= 0})]
atan2(y, x) == atan2Table[<<y, x>>]

(***************************************************************************)
(* Point2D                                                                 *)
(***************************************************************************)
\* a plausible slip: the second comparison reads other.x for other.y
eq_swapped(self, other) == self.x = other.x /\ self.y = other.x
\* points.rs: impl PartialEq for Point2D
eq(self, other) == self.x = other.x /\ self.y = other.y

\* a plausible slip: the x tie-break keeps the larger x
pick_left_max_x(self, other) ==
  IF eq(self, other) THEN other
  ELSE IF self.y # other.y
       THEN (IF self.y < other.y THEN self ELSE other)
       ELSE (IF self.x > other.x THEN self ELSE other)
\* points.rs: Point2D::pick_left
pick_left(self, other) ==
  IF eq(self, other) THEN other
  ELSE IF self.y # other.y
       THEN (IF self.y < other.y THEN self ELSE other)
       ELSE (IF self.x < other.x THEN self ELSE other)

\* a plausible slip: >= 0.0 for > 0.0
ccw_or_collinear(self, point_b, point_c) ==
  (point_b.x - self.x) * (point_c.y - self.y)
    - (point_b.y - self.y) * (point_c.x - self.x) >= 0
\* points.rs: Point2D::ccw
ccw(self, point_b, point_c) ==
  (point_b.x - self.x) * (point_c.y - self.y)
    - (point_b.y - self.y) * (point_c.x - self.x) > 0

(***************************************************************************)
(* Fatpoint2D                                                              *)
(***************************************************************************)
\* types.rs: compute_distance.  The f64 sqrt(r) is represented by its
\* radicand r: sqrt is strictly increasing and r is a small exact integer.
compute_distance(point1, point2) ==
  (point1.x - point2.x) * (point1.x - point2.x)
    + (point1.y - point2.y) * (point1.y - point2.y)

\* types.rs: compute_angle
compute_angle(point1, point2) == atan2(point2.y - point1.y, point2.x - point1.x)

\* types.rs: Fatpoint2D::new
Fatpoint2D_new(point, vertex) ==
  [x |-> point.x, y |-> point.y,
   distance |-> compute_distance(point, vertex),
   angle |-> compute_angle(point, vertex)]

\* a plausible slip: the keys are compared by distance
partial_cmp_distance(self, other) ==
  IF self.distance < other.distance THEN "Less"
  ELSE IF self.distance > other.distance THEN "Greater" ELSE "Equal"
\* types.rs: impl PartialOrd for Fatpoint2D (finite angles: never None)
partial_cmp(self, other) ==
  IF self.angle < other.angle THEN "Less"
  ELSE IF self.angle > other.angle THEN "Greater" ELSE "Equal"

\* types.rs:75 set.sort_by(|a, b| a.partial_cmp(b).unwrap()): a stable sort,
\* the keys that compare Equal keep the order they came in
RECURSIVE insert_sorted(_, _)
insert_sorted(sorted, key) ==
  IF Len(sorted) = 0 THEN <<key>>
  ELSE IF partial_cmp(key, sorted[Len(sorted)]) = "Less"
       THEN Append(insert_sorted(SubSeq(sorted, 1, Len(sorted) - 1), key),
                   sorted[Len(sorted)])
       ELSE Append(sorted, key)
RECURSIVE sort_from(_, _, _)
sort_from(keys, i, sorted) ==
  IF i > Len(keys) THEN sorted
  ELSE sort_from(keys, i + 1, insert_sorted(sorted, keys[i]))
sort_by(keys) == sort_from(keys, 1, <<>>)

(***************************************************************************)
(* pick_vertex                                                             *)
(***************************************************************************)
\* types.rs:85-87, the loop: vertex_point = point.pick_left(vertex_point)
RECURSIVE pick_fold(_, _, _)
pick_fold(input_set_, i, vertex_point) ==
  IF i > Len(input_set_) THEN vertex_point
  ELSE pick_fold(input_set_, i + 1, pick_left(input_set_[i], vertex_point))

\* a plausible slip: no assert, an empty set answers a default point
pick_vertex_unchecked(input_set_) ==
  IF Len(input_set_) = 0
  THEN [outcome |-> "returned", reads |-> 1, vertex |-> <<[x |-> 0, y |-> 0]>>]
  ELSE [outcome |-> "returned", reads |-> 1 + Len(input_set_),
        vertex |-> <<pick_fold(input_set_, 1, input_set_[1])>>]
\* types.rs: pick_vertex.  reads counts the elements of input_set read:
\* input_set[0], then one per iteration of the loop.
pick_vertex(input_set_) ==
  IF ~(Len(input_set_) > 0)
  THEN [outcome |-> "panic", reads |-> 0, vertex |-> <<>>]
  ELSE [outcome |-> "returned", reads |-> 1 + Len(input_set_),
        vertex |-> <<pick_fold(input_set_, 1, input_set_[1])>>]

(***************************************************************************)
(* graham_scan, from section 4.3 of the specification                      *)
(***************************************************************************)
point_of(key) == [x |-> key.x, y |-> key.y]

\* step 4, the inner loop: pop while the top two entries and p make no
\* counterclockwise turn
RECURSIVE pop_non_left(_, _)
pop_non_left(stack, p) ==
  IF Len(stack) >= 2 /\ ~ccw(stack[Len(stack) - 1], stack[Len(stack)], p)
  THEN pop_non_left(SubSeq(stack, 1, Len(stack) - 1), p)
  ELSE stack

\* step 4, the outer loop over the points in angle order
RECURSIVE sweep(_, _, _)
sweep(stack, sorted, i) ==
  IF i > Len(sorted) THEN stack
  ELSE sweep(Append(pop_non_left(stack, point_of(sorted[i])), point_of(sorted[i])),
             sorted, i + 1)

\* steps 2 and 3: the keys of every point other than the pivot, sorted
sorted_keys(points, pivot) ==
  LET others == SelectSeq(points, LAMBDA p : ~eq(p, pivot))
  IN sort_by([i \in 1..Len(others) |-> Fatpoint2D_new(others[i], pivot)])

\* a plausible slip: the caller's collection is sorted in place
graham_scan_in_place(points) ==
  LET picked == pick_vertex(points)
  IN IF picked.outcome = "panic"
     THEN [outcome |-> "panic", hull |-> <<>>, points |-> points]
     ELSE LET pivot == picked.vertex[1]
              sorted == sorted_keys(points, pivot)
              same == SelectSeq(points, LAMBDA p : eq(p, pivot))
          IN [outcome |-> "returned",
              hull |-> IF Len(sorted) = 0 THEN <<pivot>>
                       ELSE sweep(<<pivot, point_of(sorted[1])>>, sorted, 2),
              points |-> same \o [i \in 1..Len(sorted) |-> point_of(sorted[i])]]
\* steps 1 to 5; points is the caller's collection as the call leaves it
graham_scan(points) ==
  LET picked == pick_vertex(points)
  IN IF picked.outcome = "panic"
     THEN [outcome |-> "panic", hull |-> <<>>, points |-> points]
     ELSE LET pivot == picked.vertex[1]
              sorted == sorted_keys(points, pivot)
          IN [outcome |-> "returned",
              hull |-> IF Len(sorted) = 0 THEN <<pivot>>
                       ELSE sweep(<<pivot, point_of(sorted[1])>>, sorted, 2),
              points |-> points]

(***************************************************************************)
(* jarvis_march, from section 4.4 of the specification                     *)
(***************************************************************************)
\* step 2: no point lies strictly to the right of current -> candidate
qualifies(points, current_, candidate) ==
  \A i \in 1..Len(points) : ~ccw(current_, points[i], candidate)

\* step 2: the scan of all points; collinear candidates: the farthest
RECURSIVE scan_candidates(_, _, _, _)
scan_candidates(points, current_, i, best) ==
  IF i > Len(points) THEN best
  ELSE scan_candidates(points, current_, i + 1,
         IF qualifies(points, current_, points[i])
            /\ compute_distance(current_, points[i]) > compute_distance(current_, best)
         THEN points[i] ELSE best)
next_candidate(points, current_) == scan_candidates(points, current_, 1, current_)

(***************************************************************************)
(* The state: the caller's collection and what each call has answered.     *)
(* An absent value is the empty sequence, a present one a sequence of one. *)
(***************************************************************************)
VARIABLES
  pc,           \* where the caller is
  input_set,    \* the caller's Vec<Point2D>
  given,        \* the collection as the caller built it
  outcome,      \* "none", "returned" or "panic": how the last call ended
  reads,        \* elements of input_set read by pick_vertex
  vertex,       \* pick_vertex's answer
  ccw_out,      \* ccw's answer
  fat_out,      \* Fatpoint2D::new's answer
  sorted_out,   \* the keys after sort_by
  graham_hull,  \* graham_scan's answer
  jarvis_in,    \* the collection jarvis_march was handed
  jarvis_hull,  \* jarvis_march's hull so far
  current       \* jarvis_march's current vertex

vars == <<pc, input_set, given, outcome, reads, vertex, ccw_out, fat_out,
          sorted_out, graham_hull, jarvis_in, jarvis_hull, current>>

Init ==
  /\ input_set \in PointSets
  /\ given = input_set
  /\ pc = "Start"
  /\ outcome = "none"
  /\ reads = 0
  /\ vertex = <<>>
  /\ ccw_out = <<>>
  /\ fat_out = <<>>
  /\ sorted_out = <<>>
  /\ graham_hull = <<>>
  /\ jarvis_in = <<>>
  /\ jarvis_hull = <<>>
  /\ current = <<>>

\* types.rs: pick_vertex(&input_set)
PickVertex ==
  /\ pc = "Start"
  /\ \E r \in {pick_vertex(input_set)} :
       /\ outcome' = r.outcome
       /\ reads' = r.reads
       /\ vertex' = r.vertex
  /\ pc' = "Picked"
  /\ UNCHANGED <<input_set, given, ccw_out, fat_out, sorted_out, graham_hull,
                 jarvis_in, jarvis_hull, current>>

\* points.rs: a.ccw(&b, &c) on a collection of exactly the three points
Ccw ==
  /\ pc = "Start"
  /\ Len(input_set) = 3
  /\ ccw_out' = <<ccw(input_set[1], input_set[2], input_set[3])>>
  /\ pc' = "Turned"
  /\ UNCHANGED <<input_set, given, outcome, reads, vertex, fat_out, sorted_out,
                 graham_hull, jarvis_in, jarvis_hull, current>>

\* types.rs: Fatpoint2D::new(&point, &vertex) on a collection of exactly
\* the point and the vertex
FatNew ==
  /\ pc = "Start"
  /\ Len(input_set) = 2
  /\ fat_out' = <<Fatpoint2D_new(input_set[1], input_set[2])>>
  /\ pc' = "Keyed"
  /\ UNCHANGED <<input_set, given, outcome, reads, vertex, ccw_out, sorted_out,
                 graham_hull, jarvis_in, jarvis_hull, current>>

\* the keys of all points about the first one, before they are sorted
keys_of(points) == [i \in 1..Len(points) |-> Fatpoint2D_new(points[i], points[1])]

\* types.rs:74-75: the keys of the collection, sorted with partial_cmp
SortKeys ==
  /\ pc = "Start"
  /\ Len(input_set) >= 1
  /\ sorted_out' = sort_by(keys_of(input_set))
  /\ pc' = "Sorted"
  /\ UNCHANGED <<input_set, given, outcome, reads, vertex, ccw_out, fat_out,
                 graham_hull, jarvis_in, jarvis_hull, current>>

\* main.rs:33 graham_scan(input_set); a panic unwinds through the harness
GrahamScan ==
  /\ pc = "Start"
  /\ \E r \in {graham_scan(input_set)} :
       /\ outcome' = r.outcome
       /\ graham_hull' = r.hull
       /\ input_set' = r.points
       /\ pc' = IF r.outcome = "panic" THEN "Panicked" ELSE "GrahamDone"
  /\ UNCHANGED <<given, reads, vertex, ccw_out, fat_out, sorted_out,
                 jarvis_in, jarvis_hull, current>>

\* main.rs:39 jarvis_march(input_set), step 1: the pivot opens the hull
JarvisStart ==
  /\ pc = "GrahamDone"
  /\ jarvis_in' = input_set
  /\ \E picked \in {pick_vertex(input_set)} :
       IF picked.outcome = "panic"
       THEN /\ outcome' = "panic"
            /\ pc' = "Panicked"
            /\ UNCHANGED <<jarvis_hull, current>>
       ELSE /\ outcome' = "none"
            /\ pc' = "Marching"
            /\ jarvis_hull' = picked.vertex
            /\ current' = picked.vertex
  /\ UNCHANGED <<input_set, given, reads, vertex, ccw_out, fat_out, sorted_out,
                 graham_hull>>

\* steps 2 to 4: one round of the march.  The hull's length is capped one
\* past the number of points so that a march that never closes stays finite.
JarvisStep ==
  /\ pc = "Marching"
  /\ Len(jarvis_hull) <= Len(jarvis_in)
  /\ \E candidate \in {next_candidate(jarvis_in, current[1])} :
       IF eq(candidate, jarvis_hull[1])
       THEN /\ pc' = "Built"
            /\ outcome' = "returned"
            /\ UNCHANGED <<jarvis_hull, current>>
       ELSE /\ jarvis_hull' = Append(jarvis_hull, candidate)
            /\ current' = <<candidate>>
            /\ UNCHANGED <<pc, outcome>>
  /\ UNCHANGED <<input_set, given, reads, vertex, ccw_out, fat_out, sorted_out,
                 graham_hull, jarvis_in>>

Next ==
  \/ PickVertex
  \/ Ccw
  \/ FatNew
  \/ SortKeys
  \/ GrahamScan
  \/ JarvisStart
  \/ JarvisStep

Spec == Init /\ [][Next]_vars

\* the harness is one synchronous thread: a call that can run does run
FairSpec == Spec /\ WF_vars(JarvisStart) /\ WF_vars(JarvisStep)

(***************************************************************************)
(* Plane geometry the properties are stated in                             *)
(***************************************************************************)
Sub(a, o) == [x |-> a.x - o.x, y |-> a.y - o.y]
Cross2(u, v) == u.x * v.y - u.y * v.x
Dot2(u, v) == u.x * v.x + u.y * v.y
\* > 0: o -> a -> b turns left; 0: collinear; < 0: turns right
Turn(o, a, b) == Cross2(Sub(a, o), Sub(b, o))
AllCollinear(S) == \A a \in S, b \in S, c \in S : Turn(a, b, c) = 0
NoDuplicates(s) == \A i \in 1..Len(s), j \in 1..Len(s) : i # j => s[i] # s[j]
Count(s, e) == Cardinality({i \in 1..Len(s) : s[i] = e})

\* every point of S is inside or on the boundary of the polygon hull_,
\* walked counterclockwise (a point, a segment or a polygon)
Encloses(hull_, S) ==
  CASE Len(hull_) = 0 -> S = {}
    [] Len(hull_) = 1 -> \A p \in S : p = hull_[1]
    [] Len(hull_) = 2 ->
         \A p \in S :
           /\ Turn(hull_[1], hull_[2], p) = 0
           /\ Dot2(Sub(p, hull_[1]), Sub(hull_[2], hull_[1])) >= 0
           /\ Dot2(Sub(p, hull_[2]), Sub(hull_[1], hull_[2])) >= 0
    [] OTHER ->
         \A i \in 1..Len(hull_), p \in S :
           Turn(hull_[i], hull_[(i % Len(hull_)) + 1], p) >= 0

\* the two ends of a collinear set with at least two distinct points
Extremes(S) ==
  {e \in S : \A a \in S, b \in S : Dot2(Sub(a, e), Sub(b, e)) >= 0}

GrahamAnswered == pc \in {"GrahamDone", "Marching", "Built"}

(***************************************************************************)
(* The properties                                                          *)
(***************************************************************************)

\* C1: on a non-empty collection pick_vertex returns a point of the input
\* with the least y and, among the points of that y, the least x, whatever
\* the order of the input and whether or not it holds duplicates.
C1_PivotIsLowestThenLeftmost ==
  (pc = "Picked" /\ Len(given) > 0) =>
    /\ outcome = "returned"
    /\ Len(vertex) = 1
    /\ vertex[1] \in Range(given)
    /\ \A p \in Range(given) :
         vertex[1].y < p.y \/ (vertex[1].y = p.y /\ vertex[1].x <= p.x)

\* the pivot is the middle element, ties the first one on y, and the first
\* element is repeated
C1_Witness ==
  /\ pc = "Picked"
  /\ Len(given) = 3
  /\ given[1] = given[3]
  /\ given[2].y = given[1].y
  /\ given[2].x < given[1].x
  /\ vertex = <<given[2]>>

\* C2: in both algorithms every vertex of the hull is a point of the input
\* and every input point is inside or on the boundary of the hull.
C2_HullEnclosesInput ==
  /\ GrahamAnswered =>
       /\ Range(graham_hull) \subseteq Range(given)
       /\ Encloses(graham_hull, Range(given))
  /\ pc = "Built" =>
       /\ Range(jarvis_hull) \subseteq Range(given)
       /\ Encloses(jarvis_hull, Range(given))

\* C3: the angular-sweep hull and the gift-wrap hull of the same collection
\* have the same set of vertices.
C3_SameVertexSet ==
  pc = "Built" => Range(graham_hull) = Range(jarvis_hull)

\* C4: when all points lie on one line and two of them differ, the hull is
\* exactly the two extreme points of the line, in both algorithms.
C4_CollinearGivesExtremes ==
  (AllCollinear(Range(given)) /\ Cardinality(Range(given)) >= 2) =>
    /\ GrahamAnswered => Range(graham_hull) = Extremes(Range(given))
    /\ pc = "Built" => Range(jarvis_hull) = Extremes(Range(given))

\* C5: self.ccw(b, c) is true exactly when (b - self) x (c - self) > 0, and
\* false when the three points are collinear (two of them equal included)
\* and when the turn is clockwise.
C5_CcwIsStrictLeftTurn ==
  pc = "Turned" =>
    LET a == given[1]
        b == given[2]
        c == given[3]
    IN /\ ccw_out[1] = (Cross2(Sub(b, a), Sub(c, a)) > 0)
       /\ (a = b \/ b = c \/ a = c) => ccw_out[1] = FALSE
       /\ Turn(a, b, c) = 0 => ccw_out[1] = FALSE
       /\ Turn(a, c, b) > 0 => ccw_out[1] = FALSE

\* three distinct collinear points: the answer is false
C5_Witness ==
  /\ pc = "Turned"
  /\ Cardinality(Range(given)) = 3
  /\ Turn(given[1], given[2], given[3]) = 0
  /\ ccw_out = <<FALSE>>

\* C6: pick_vertex on an empty collection ends in an error the caller sees;
\* it returns no point and reads no element of the collection.
C6_EmptyInputFails ==
  /\ (pc = "Picked" /\ Len(given) = 0) =>
       /\ outcome = "panic"
       /\ vertex = <<>>
       /\ reads = 0
  /\ (pc # "Start" /\ pc # "Picked" /\ Len(given) = 0) =>
       /\ pc = "Panicked"
       /\ outcome = "panic"
       /\ graham_hull = <<>>

C6_Witness ==
  /\ pc = "Picked"
  /\ Len(given) = 0
  /\ outcome = "panic"

\* C7: the key of a point carries the polar angle of the offset from the
\* pivot to the point, atan2(point.y - pivot.y, point.x - pivot.x).
C7_AngleFromPivotToPoint ==
  pc = "Keyed" =>
    LET point == given[1]
        pivot == given[2]
    IN fat_out[1].angle = atan2(point.y - pivot.y, point.x - pivot.x)

C9_MarchTerminates ==
  /\ [](pc \in {"Marching", "Built"} =>
          /\ Len(jarvis_in) > 0
          /\ Len(jarvis_hull) <= Len(jarvis_in)
          /\ NoDuplicates(jarvis_hull))
  /\ [](pc = "Marching" => ENABLED JarvisStep)
  /\ [][pc = "Marching" =>
          \/ /\ pc' = "Built"
             /\ jarvis_hull' = jarvis_hull
             /\ eq(next_candidate(jarvis_in, current[1]), jarvis_hull[1])
          \/ /\ pc' = "Marching"
             /\ Len(jarvis_hull') = Len(jarvis_hull) + 1
             /\ jarvis_hull'[Len(jarvis_hull')] \notin Range(jarvis_hull)]_vars

\* the same as a property of whole runs: under the fairness of FairSpec
\* every march in progress reaches Built
MarchReachesBuilt == (pc = "Marching") ~> (pc = "Built")

\* the march has closed on a collection that repeats a hull vertex
C9_Witness ==
  /\ pc = "Built"
  /\ Len(given) = 3
  /\ Cardinality(Range(given)) = 2
  /\ Len(jarvis_hull) = 2

\* C10: the order of two keys depends on their angles alone: sort_by with
\* partial_cmp leaves the keys in non-decreasing angle order, and keys of
\* equal angle and different distance compare Equal.
C10_OrderByAngleOnly ==
  pc = "Sorted" =>
    LET keys == keys_of(given)
    IN /\ Len(sorted_out) = Len(keys)
       /\ \A k \in Range(keys) : Count(sorted_out, k) = Count(keys, k)
       /\ \A i \in 1..Len(sorted_out), j \in 1..Len(sorted_out) :
            i < j => sorted_out[i].angle <= sorted_out[j].angle
       /\ \A i \in 1..Len(keys), j \in 1..Len(keys) :
            /\ (partial_cmp(keys[i], keys[j]) = "Equal")
                 <=> (keys[i].angle = keys[j].angle)
            /\ (partial_cmp(keys[i], keys[j]) = "Less")
                 <=> (keys[i].angle < keys[j].angle)

\* two keys of one angle and different distances, and a sort that moved a key
C10_Witness ==
  /\ pc = "Sorted"
  /\ sorted_out # keys_of(given)
  /\ \E i \in 1..Len(sorted_out), j \in 1..Len(sorted_out) :
       /\ sorted_out[i].angle = sorted_out[j].angle
       /\ sorted_out[i].distance # sorted_out[j].distance

====
